---- MODULE Spec2Model ----
(***************************************************************************)
(* Model of the changelog validator in src/scripts/yaml_parser.py.         *)
(*                                                                         *)
(* A line of input is a sequence of one-character strings, so that every   *)
(* regular expression of the source is evaluated on the characters of the  *)
(* line.  The alphabet has no newline: input() returns a line without it.  *)
(*                                                                         *)
(* parse_yaml() constructs `ModemYamlParser`, a name the file does not     *)
(* define; the only parser class of the file, YamlParser (whose            *)
(* parse_release carries the docstring of the extended parser), is the     *)
(* one modelled as the object the driver feeds.                            *)
(***************************************************************************)
EXTENDS Integers, Sequences, FiniteSets, TLC

\* Most lines one run reads (the source reads until end of input).
MaxLines == 10

-----------------------------------------------------------------------------
(* Literal text of the patterns *)

K_task == <<" ", " ", "-", " ", "t", "a", "s", "k", ":", " ">>
K_task_http == <<" ", " ", "-", " ", "t", "a", "s", "k", ":", " ", "h", "t", "t", "p">>
K_release == <<" ", " ", "-", " ", "r", "e", "l", "e", "a", "s", "e", ":", " ">>
K_prerelease == <<" ", " ", "-", " ", "p", "r", "e", "r", "e", "l", "e", "a", "s", "e", ":", " ">>
K_arch == <<" ", " ", " ", " ", "a", "r", "c", "h", ":", " ">>
K_date == <<" ", " ", " ", " ", "d", "a", "t", "e", ":", " ">>
K_dependencies == <<" ", " ", " ", " ", "d", "e", "p", "e", "n", "d", "e", "n", "c", "i", "e", "s", ":">>
K_base == <<" ", " ", " ", " ", "b", "a", "s", "e", ":", " ">>
K_protocol == <<" ", " ", " ", " ", "p", "r", "o", "t", "o", "c", "o", "l", ":", " ">>
K_type_suffix == <<":", " ", "|">>
K_empty_list == <<" ", "[", "]">>
K_comma == <<",", " ">>
Indent2 == <<" ", " ">>
Indent4 == <<" ", " ", " ", " ">>
Indent6 == <<" ", " ", " ", " ", " ", " ">>

ArchNames == {<<"s", "t", "m", "3", "2">>, <<"a", "v", "r">>, <<"a", "t", "3", "2">>}
TypeNames ==
    { <<"f", "e", "a", "t", "u", "r", "e">>, <<"b", "u", "g">>,
      <<"i", "n", "t", "e", "r", "n", "a", "l">>, <<"i", "n", "f", "o">> }

-----------------------------------------------------------------------------
(* Character classes and string helpers used by re.match *)

\* \d
IsDigit(c) == c \in {"0", "1", "2", "3", "4", "5", "6", "7", "8", "9"}

\* \s (the complement is \S)
IsSpace(c) == c \in {" ", "\t"}

\* the pattern's literal prefix p matches at the start of s
StartsWith(s, p) == Len(s) >= Len(p) /\ SubSeq(s, 1, Len(p)) = p

\* what is left of s after its first n characters
After(s, n) == SubSeq(s, n + 1, Len(s))

\* (\d)* up to the end of the string
AllDigits(s) == \A i \in 1..Len(s) : IsDigit(s[i])

-----------------------------------------------------------------------------
(* The patterns: each operator is TRUE iff re.match(pattern, s) matches *)

\* Faulty variant of major_vers_pattern: one digit instead of one or more.
major_vers_pattern_one_digit(s) == Len(s) = 2 /\ IsDigit(s[1]) /\ s[2] = ":"

\* ^(\d+):$
major_vers_pattern(s) ==
    /\ Len(s) >= 2
    /\ s[Len(s)] = ":"
    /\ AllDigits(SubSeq(s, 1, Len(s) - 1))

\* Faulty variant of task_pattern: four leading spaces instead of two.
task_pattern_indent4(s) == StartsWith(s, Indent2 \o K_task)

\* ^  - task: 
task_pattern(s) == StartsWith(s, K_task)

\* Faulty variant of task_extended_pattern: the value is not required to start
\* with http.
task_extended_pattern_any(s) == StartsWith(s, K_task) /\ Len(s) > Len(K_task)

\* ^  - task: http(.+)$
task_extended_pattern(s) == StartsWith(s, K_task_http) /\ Len(s) > Len(K_task_http)

\* (stm32|avr|at32)(, (stm32|avr|at32))*$
RECURSIVE ArchList(_)
ArchList(r) ==
    \E a \in ArchNames :
        /\ StartsWith(r, a)
        /\ \/ Len(r) = Len(a)
           \/ /\ StartsWith(After(r, Len(a)), K_comma)
              /\ ArchList(After(r, Len(a) + Len(K_comma)))

\* Faulty variant of arch_pattern: the repetition (, name)* is left out.
arch_pattern_single(s) == \E a \in ArchNames : s = K_arch \o a

\* ^    arch: (stm32|avr|at32)(, (stm32|avr|at32))*$
arch_pattern(s) == StartsWith(s, K_arch) /\ ArchList(After(s, Len(K_arch)))

\* Faulty variant of task_type_pattern: the alternative info is left out
\* (as it is in the text of the type diagnostic).
task_type_pattern_no_info(s) ==
    \E t \in TypeNames \ {<<"i", "n", "f", "o">>} : s = Indent4 \o t \o K_type_suffix

\* ^    (feature|bug|internal|info): \|$
task_type_pattern(s) == \E t \in TypeNames : s = Indent4 \o t \o K_type_suffix

\* ^      \S(.*)
description_initial_pattern(s) ==
    StartsWith(s, Indent6) /\ Len(s) > Len(Indent6) /\ ~IsSpace(s[Len(Indent6) + 1])

\* ^      (.*)
description_pattern(s) == StartsWith(s, Indent6)

\* Faulty variant of separator_pattern: ^\s*$, a line of white space only is a
\* separator too.
separator_pattern_whitespace(s) == \A i \in 1..Len(s) : IsSpace(s[i])

\* ^$
separator_pattern(s) == s = <<>>

\* Faulty variant of release_pattern: the alternative prerelease is left out.
release_pattern_release_only(s) == StartsWith(s, K_release)

\* ^  - (release|prerelease): 
release_pattern(s) == StartsWith(s, K_release) \/ StartsWith(s, K_prerelease)

\* ^  - (release|prerelease): (\d+)$
release_extended_pattern(s) ==
    \E k \in {K_release, K_prerelease} :
        /\ StartsWith(s, k)
        /\ Len(s) > Len(k)
        /\ AllDigits(After(s, Len(k)))

\* ^    date: \d{2}\.\d{2}\.\d{2}$
date_pattern(s) ==
    /\ StartsWith(s, K_date)
    /\ LET d == After(s, Len(K_date))
       IN  /\ Len(d) = 8
           /\ \A i \in {1, 2, 4, 5, 7, 8} : IsDigit(d[i])
           /\ \A i \in {3, 6} : d[i] = "."

\* ( \[\])*$
RECURSIVE EmptyLists(_)
EmptyLists(r) ==
    \/ r = <<>>
    \/ StartsWith(r, K_empty_list) /\ EmptyLists(After(r, Len(K_empty_list)))

\* ^    dependencies:( \[\])*$
dependencies_pattern(s) ==
    StartsWith(s, K_dependencies) /\ EmptyLists(After(s, Len(K_dependencies)))

\* ^    base: (\d+)*$
base_pattern(s) == StartsWith(s, K_base) /\ AllDigits(After(s, Len(K_base)))

\* ^    protocol: (\d+)$
protocol_pattern(s) ==
    /\ StartsWith(s, K_protocol)
    /\ Len(s) > Len(K_protocol)
    /\ AllDigits(After(s, Len(K_protocol)))

\* ^  \S  (validate_initial)
indent2_pattern(s) ==
    StartsWith(s, Indent2) /\ Len(s) > Len(Indent2) /\ ~IsSpace(s[Len(Indent2) + 1])

\* Faulty variant of indent4_pattern: the \S after the four spaces is left out.
indent4_pattern_no_content(s) == StartsWith(s, Indent4)

\* ^    \S  (parse_task, parse_release)
indent4_pattern(s) ==
    StartsWith(s, Indent4) /\ Len(s) > Len(Indent4) /\ ~IsSpace(s[Len(Indent4) + 1])

-----------------------------------------------------------------------------
(* The lines the input is drawn from *)

\* ``
L_blank == <<>>
\* `1:`
L_major == <<"1", ":">>
\* `10:`
L_major2 == <<"1", "0", ":">>
\* `  - task: httpx`
L_task == <<" ", " ", "-", " ", "t", "a", "s", "k", ":", " ", "h", "t", "t", "p", "x">>
\* `  - task: x`
L_task_nolink == <<" ", " ", "-", " ", "t", "a", "s", "k", ":", " ", "x">>
\* `  - task: http`
L_task_http == <<" ", " ", "-", " ", "t", "a", "s", "k", ":", " ", "h", "t", "t", "p">>
\* `  - release: 7`
L_release == <<" ", " ", "-", " ", "r", "e", "l", "e", "a", "s", "e", ":", " ", "7">>
\* `  - prerelease: 12`
L_prerelease == <<" ", " ", "-", " ", "p", "r", "e", "r", "e", "l", "e", "a", "s", "e", ":", " ", "1", "2">>
\* `  - release: x`
L_release_bad == <<" ", " ", "-", " ", "r", "e", "l", "e", "a", "s", "e", ":", " ", "x">>
\* `  - prerelease: `
L_prerelease_bad == <<" ", " ", "-", " ", "p", "r", "e", "r", "e", "l", "e", "a", "s", "e", ":", " ">>
\* `  - x: 1`
L_other2 == <<" ", " ", "-", " ", "x", ":", " ", "1">>
\* ` - task: httpx`
L_task1 == <<" ", "-", " ", "t", "a", "s", "k", ":", " ", "h", "t", "t", "p", "x">>
\* `   - release: 7`
L_release3 == <<" ", " ", " ", "-", " ", "r", "e", "l", "e", "a", "s", "e", ":", " ", "7">>
\* `    arch: avr`
L_arch == <<" ", " ", " ", " ", "a", "r", "c", "h", ":", " ", "a", "v", "r">>
\* `    arch: stm32, at32`
L_arch2 == <<" ", " ", " ", " ", "a", "r", "c", "h", ":", " ", "s", "t", "m", "3", "2", ",", " ", "a", "t", "3", "2">>
\* `    arch: x`
L_arch_bad == <<" ", " ", " ", " ", "a", "r", "c", "h", ":", " ", "x">>
\* `   arch: avr`
L_arch3 == <<" ", " ", " ", "a", "r", "c", "h", ":", " ", "a", "v", "r">>
\* `     arch: avr`
L_arch5 == <<" ", " ", " ", " ", " ", "a", "r", "c", "h", ":", " ", "a", "v", "r">>
\* `    bug: |`
L_type == <<" ", " ", " ", " ", "b", "u", "g", ":", " ", "|">>
\* `    info: |`
L_info == <<" ", " ", " ", " ", "i", "n", "f", "o", ":", " ", "|">>
\* `      x`
L_desc == <<" ", " ", " ", " ", " ", " ", "x">>
\* `      `
L_desc_blank == <<" ", " ", " ", " ", " ", " ">>
\* `       x`
L_desc7 == <<" ", " ", " ", " ", " ", " ", " ", "x">>
\* `    date: 01.02.24`
L_date == <<" ", " ", " ", " ", "d", "a", "t", "e", ":", " ", "0", "1", ".", "0", "2", ".", "2", "4">>
\* `    date: 1.2.24`
L_date_bad == <<" ", " ", " ", " ", "d", "a", "t", "e", ":", " ", "1", ".", "2", ".", "2", "4">>
\* `    dependencies:`
L_deps == <<" ", " ", " ", " ", "d", "e", "p", "e", "n", "d", "e", "n", "c", "i", "e", "s", ":">>
\* `    dependencies: []`
L_deps_list == <<" ", " ", " ", " ", "d", "e", "p", "e", "n", "d", "e", "n", "c", "i", "e", "s", ":", " ", "[", "]">>
\* `    base: 7`
L_base == <<" ", " ", " ", " ", "b", "a", "s", "e", ":", " ", "7">>
\* `    base: `
L_base_none == <<" ", " ", " ", " ", "b", "a", "s", "e", ":", " ">>
\* `    protocol: 3`
L_protocol == <<" ", " ", " ", " ", "p", "r", "o", "t", "o", "c", "o", "l", ":", " ", "3">>
\* `    ` (four spaces and nothing after them)
L_spaces4 == <<" ", " ", " ", " ">>
\* `    x`
L_other4 == <<" ", " ", " ", " ", "x">>

Lines ==
    { L_blank, L_major, L_major2,
      L_task, L_task_nolink, L_task_http,
      L_release, L_prerelease, L_release_bad, L_prerelease_bad,
      L_other2, L_task1, L_release3,
      L_arch, L_arch2, L_arch_bad, L_arch3, L_arch5,
      L_type, L_info,
      L_desc, L_desc_blank, L_desc7,
      L_date, L_date_bad, L_deps, L_deps_list, L_base, L_base_none,
      L_protocol, L_other4, L_spaces4 }


-----------------------------------------------------------------------------
(* The expected-construct texts passed to raise_error.  A string of this   *)
(* language cannot hold a backquote: ' stands for it in these texts.       *)

MsgIndent2 == "2 spaces '  ' before {task,release}"
MsgKeyword == "'  - {task,release}:'"
MsgTask == "'  - task: <link-to-task>'"
MsgRelease == "'  - release: <minor-version-number>'"
MsgIndent4 == "indent 4 spaces '    '"
MsgArch == "'    arch: {stm32,avr,at32}'"
MsgType == "'    {feature,bug,internal}: |'"
MsgDescription == "'      <description>'"
MsgDate == "'    date: <dd.mm.yy>'"
MsgDependencies == "'    dependencies:'"
MsgProtocol == "'    protocol: <number-of-protocol>'"

-----------------------------------------------------------------------------
(* YamlParser.  A parser value p is a record:                              *)
(*   state        the flags of self.state                                  *)
(*   line_number  self.line_number                                         *)
(*   printed      the diagnostics error_print has written, in order        *)
(*   exited       TRUE once exit(1) has been called                        *)
(* Every method is an operator from the parser before the call to the      *)
(* parser after it.  A statement after a raise_error call runs only if     *)
(* the call returned, that is if exited is still FALSE.                    *)

FlagNames ==
    { "major_ver", "task", "arch", "type", "description",
      "release", "date", "dependencies", "base", "protocol" }

ReleaseKeys ==
    {"release", "date", "dependencies", "base", "protocol", "description", "type"}

\* self.state = {... all False ...}
reset_state(p) == [p EXCEPT !.state = [k \in FlagNames |-> FALSE]]

\* Faulty variant of reset_release_state: every flag is reset, as reset_state does.
reset_release_state_all(p) == [p EXCEPT !.state = [k \in FlagNames |-> FALSE]]

\* Faulty variant of reset_release_state: the key date is left out of the list.
reset_release_state_no_date(p) ==
    [p EXCEPT !.state =
        [k \in FlagNames |-> IF k \in ReleaseKeys \ {"date"} THEN FALSE ELSE @[k]]]

\* Faulty variant of reset_release_state: the key base is left out of the list.
reset_release_state_no_base(p) ==
    [p EXCEPT !.state =
        [k \in FlagNames |-> IF k \in ReleaseKeys \ {"base"} THEN FALSE ELSE @[k]]]

\* for key in [...]: self.state[key] = False
reset_release_state(p) ==
    [p EXCEPT !.state = [k \in FlagNames |-> IF k \in ReleaseKeys THEN FALSE ELSE @[k]]]

\* self.state[key] = True
SetFlag(p, key) == [p EXCEPT !.state[key] = TRUE]

\* Faulty variant of set_current_line_number: the assignment is left out.
set_current_line_number_unset(p, number) == p

\* self.line_number = number
set_current_line_number(p, number) == [p EXCEPT !.line_number = number]

\* Faulty variant of raise_error: the diagnostic is printed and exit(1) is left out.
raise_error_no_exit(p, line, message) ==
    [p EXCEPT !.printed = Append(@, [line_number |-> p.line_number,
                                     line |-> line,
                                     expected |-> message])]

\* error_print(<source>, line <line_number>, `<line>`, message); exit(1)
raise_error(p, line, message) ==
    [p EXCEPT !.printed = Append(@, [line_number |-> p.line_number,
                                     line |-> line,
                                     expected |-> message]),
              !.exited = TRUE]

validate_initial(p, string) ==
    LET p1 == IF ~indent2_pattern(string)
              THEN raise_error(p, string, MsgIndent2)
              ELSE p
    IN  IF p1.exited THEN p1
        ELSE IF ~task_pattern(string) /\ ~release_pattern(string)
             THEN raise_error(p1, string, MsgKeyword)
        ELSE IF task_pattern(string)
             THEN raise_error(p1, string, MsgTask)
        ELSE IF release_pattern(string)
             THEN raise_error(p1, string, MsgRelease)
        ELSE p1

parse_initial(p, string) ==
    IF task_extended_pattern(string) THEN SetFlag(p, "task")
    ELSE IF release_extended_pattern(string) THEN SetFlag(p, "release")
    ELSE validate_initial(p, string)

\* Faulty variant of task_description: the empty line closes the block without
\* the test of the description flag.
task_description_close_early(p, string) ==
    IF separator_pattern(string) THEN reset_state(p)
    ELSE IF description_initial_pattern(string) THEN SetFlag(p, "description")
    ELSE IF p.state.description /\ description_pattern(string) THEN p
    ELSE raise_error(p, string, MsgDescription)

\* lines 195-208: the description part of a task block
task_description(p, string) ==
    IF separator_pattern(string) /\ p.state.description THEN reset_state(p)
    ELSE IF description_initial_pattern(string) THEN SetFlag(p, "description")
    ELSE IF p.state.description /\ description_pattern(string) THEN p
    ELSE raise_error(p, string, MsgDescription)

\* lines 188-208: the part of parse_task guarded by self.state['arch']
task_after_arch(p, string) ==
    IF task_type_pattern(string) THEN SetFlag(p, "type")
    ELSE LET p1 == IF ~p.state.type
                   THEN raise_error(p, string, MsgType)
                   ELSE p
         IN  IF p1.exited THEN p1
             ELSE IF p1.state.type THEN task_description(p1, string)
             ELSE p1

\* Faulty variant of parse_task: the architecture is tested before the indent
\* (lines 182-186 moved above lines 177-180).
parse_task_arch_first(p, string) ==
    IF arch_pattern(string) THEN SetFlag(p, "arch")
    ELSE LET p1 == IF ~p.state.arch
                   THEN raise_error(p, string, MsgArch)
                   ELSE p
             p2 == IF /\ ~p1.exited
                      /\ ~indent4_pattern(string)
                      /\ ~p1.state.type
                      /\ ~separator_pattern(string)
                   THEN raise_error(p1, string, MsgIndent4)
                   ELSE p1
         IN  IF p2.exited THEN p2
             ELSE IF p2.state.arch THEN task_after_arch(p2, string)
             ELSE p2

parse_task(p, string) ==
    LET p1 == IF /\ ~indent4_pattern(string)
                 /\ ~p.state.type
                 /\ ~separator_pattern(string)
              THEN raise_error(p, string, MsgIndent4)
              ELSE p
    IN  IF p1.exited THEN p1
        ELSE IF arch_pattern(string) THEN SetFlag(p1, "arch")
        ELSE LET p2 == IF ~p1.state.arch
                       THEN raise_error(p1, string, MsgArch)
                       ELSE p1
             IN  IF p2.exited THEN p2
                 ELSE IF p2.state.arch THEN task_after_arch(p2, string)
                 ELSE p2

\* lines 267-278: the description part of a release block
release_description(p, string) ==
    IF separator_pattern(string) /\ p.state.description THEN reset_release_state(p)
    ELSE IF description_initial_pattern(string) THEN SetFlag(p, "description")
    ELSE IF p.state.description /\ description_pattern(string) THEN p
    ELSE raise_error(p, string, MsgDescription)

\* lines 258-278: the part of parse_release guarded by self.state['protocol']
release_after_protocol(p, string) ==
    IF task_type_pattern(string) THEN SetFlag(p, "type")
    ELSE LET p1 == IF separator_pattern(string) THEN reset_release_state(p) ELSE p
         IN  IF p1.state.type THEN release_description(p1, string) ELSE p1

\* lines 251-278: the part of parse_release guarded by self.state['dependencies']
release_after_dependencies(p, string) ==
    IF protocol_pattern(string) THEN SetFlag(p, "protocol")
    ELSE LET p1 == IF ~p.state.protocol
                   THEN raise_error(p, string, MsgProtocol)
                   ELSE p
         IN  IF p1.exited THEN p1
             ELSE IF p1.state.protocol THEN release_after_protocol(p1, string)
             ELSE p1

\* Faulty variant of release_after_date: the check that the dependencies are
\* satisfied (lines 248-249) is left out.
release_after_date_unchecked(p, string) ==
    IF dependencies_pattern(string) THEN SetFlag(p, "dependencies")
    ELSE IF base_pattern(string) THEN SetFlag(p, "base")
    ELSE IF p.state.dependencies THEN release_after_dependencies(p, string)
    ELSE p

\* lines 241-278: the part of parse_release guarded by self.state['date']
release_after_date(p, string) ==
    IF dependencies_pattern(string) THEN SetFlag(p, "dependencies")
    ELSE IF base_pattern(string) THEN SetFlag(p, "base")
    ELSE LET p1 == IF ~p.state.dependencies
                   THEN raise_error(p, string, MsgDependencies)
                   ELSE p
         IN  IF p1.exited THEN p1
             ELSE IF p1.state.dependencies THEN release_after_dependencies(p1, string)
             ELSE p1

\* Faulty variant of parse_release: the test of the date flag (lines 238-241)
\* is left out.
parse_release_no_date_check(p, string) ==
    LET p1 == IF /\ ~indent4_pattern(string)
                 /\ ~p.state.type
                 /\ ~separator_pattern(string)
              THEN raise_error(p, string, MsgIndent4)
              ELSE p
    IN  IF p1.exited THEN p1
        ELSE IF date_pattern(string) THEN SetFlag(p1, "date")
        ELSE release_after_date(p1, string)

parse_release(p, string) ==
    LET p1 == IF /\ ~indent4_pattern(string)
                 /\ ~p.state.type
                 /\ ~separator_pattern(string)
              THEN raise_error(p, string, MsgIndent4)
              ELSE p
    IN  IF p1.exited THEN p1
        ELSE IF date_pattern(string) THEN SetFlag(p1, "date")
        ELSE LET p2 == IF ~p1.state.date
                       THEN raise_error(p1, string, MsgDate)
                       ELSE p1
             IN  IF p2.exited THEN p2
                 ELSE IF p2.state.date THEN release_after_date(p2, string)
                 ELSE p2

parse_line(p, string) ==
    IF major_vers_pattern(string) THEN SetFlag(p, "major_ver")
    ELSE IF ~p.state.task /\ ~p.state.release THEN parse_initial(p, string)
    ELSE IF p.state.task THEN parse_task(p, string)
    ELSE IF p.state.release THEN parse_release(p, string)
    ELSE p

\* YamlParser(): line_number = 0, reset_state()
NewParser ==
    [ state |-> [k \in FlagNames |-> FALSE],
      line_number |-> 0,
      printed |-> <<>>,
      exited |-> FALSE ]

-----------------------------------------------------------------------------------------------------------------------------------------------------
(* The line classes the properties speak about, given by the lines         *)
(* themselves and not by the patterns of the source                        *)

MajorMarkers == {L_major, L_major2}
TaskDeclarations == {L_task}
ReleaseDeclarations == {L_release, L_prerelease}
ArchLines == {L_arch, L_arch2}
TypeLines == {L_type, L_info}
DescriptionFirstLines == {L_desc}
DescriptionContinuations == {L_desc, L_desc_blank, L_desc7}
DateLines == {L_date}
BaseLines == {L_base, L_base_none}
DependenciesLines == {L_deps, L_deps_list}
ProtocolLines == {L_protocol}
BlankLines == {L_blank}

(* Observer of the input: how far the lines read since the last line that  *)
(* was read with no block open follow the shape of a well-formed block.    *)
(*   stage  "none" (they do not), or the last construct of the shape read  *)
(*   base   a base line was among them                                     *)
(*   cont   a description continuation was among them                      *)
NoShape == [stage |-> "none", base |-> FALSE, cont |-> FALSE]

At(stage) == [stage |-> stage, base |-> FALSE, cont |-> FALSE]

Follow(w, undetermined, l) ==
    IF undetermined
    THEN IF l \in TaskDeclarations THEN At("task")
         ELSE IF l \in ReleaseDeclarations THEN At("release")
         ELSE NoShape
    ELSE IF w.stage = "task" /\ l \in ArchLines THEN [w EXCEPT !.stage = "task_arch"]
    ELSE IF w.stage = "task_arch" /\ l \in TypeLines THEN [w EXCEPT !.stage = "task_type"]
    ELSE IF w.stage = "task_type" /\ l \in DescriptionFirstLines
         THEN [w EXCEPT !.stage = "task_description"]
    ELSE IF w.stage = "task_description" /\ l \in DescriptionContinuations
         THEN [w EXCEPT !.cont = TRUE]
    ELSE IF w.stage = "task_description" /\ l \in BlankLines
         THEN [w EXCEPT !.stage = "task_closed"]
    ELSE IF w.stage = "release" /\ l \in DateLines THEN [w EXCEPT !.stage = "release_date"]
    ELSE IF w.stage = "release_date" /\ l \in BaseLines
         THEN [w EXCEPT !.stage = "release_base", !.base = TRUE]
    ELSE IF w.stage \in {"release_date", "release_base"} /\ l \in DependenciesLines
         THEN [w EXCEPT !.stage = "release_dependencies"]
    ELSE IF w.stage = "release_dependencies" /\ l \in ProtocolLines
         THEN [w EXCEPT !.stage = "release_protocol"]
    ELSE IF w.stage = "release_protocol" /\ l \in BlankLines
         THEN [w EXCEPT !.stage = "release_closed"]
    ELSE IF w.stage = "release_protocol" /\ l \in TypeLines
         THEN [w EXCEPT !.stage = "release_type"]
    ELSE IF w.stage = "release_type" /\ l \in DescriptionFirstLines
         THEN [w EXCEPT !.stage = "release_description"]
    ELSE IF w.stage = "release_description" /\ l \in DescriptionContinuations
         THEN [w EXCEPT !.cont = TRUE]
    ELSE IF w.stage = "release_description" /\ l \in BlankLines
         THEN [w EXCEPT !.stage = "release_described_closed"]
    ELSE NoShape

-----------------------------------------------------------------------------
(* parse_yaml: the driver loop                                             *)

\* docker-manager.py is not running while yaml_parser.py runs
NoManager == [pc |-> "not started"]

VARIABLES
    parser,      \* the YamlParser object, with what it printed and whether it exited
    enumerator,  \* the loop counter of parse_yaml
    line,        \* the line input() returned last (<<>> before the first one)
    pc,          \* "loop": reading; "exit1": ended by exit(1); "exit0": ended normally
    success,     \* TRUE once "Parsed successfully!" has been printed
    shape,       \* history: the observer of the input, see Follow
    docker       \* the docker-manager.py process, a separate program (see below)

vars == <<parser, enumerator, line, pc, success, shape, docker>>

Init ==
    /\ parser = NewParser
    /\ enumerator = 0
    /\ line = <<>>
    /\ pc = "loop"
    /\ success = FALSE
    /\ shape = NoShape
    /\ docker = NoManager

\* the mode of section 3 of the specification, from the flags
Undetermined(st) == ~st.task /\ ~st.release

\* one iteration: enumerator += 1; line = input(); set_current_line_number; parse_line
ReadLine ==
    /\ pc = "loop"
    /\ enumerator < MaxLines
    /\ \E l \in Lines :
        LET p == parse_line(set_current_line_number(parser, enumerator + 1), l)
        IN  /\ line' = l
            /\ parser' = p
            /\ pc' = IF p.exited THEN "exit1" ELSE "loop"
            /\ shape' = Follow(shape, Undetermined(parser.state), l)
    /\ enumerator' = enumerator + 1
    /\ UNCHANGED <<success, docker>>

\* enumerator += 1; input() raises EOFError; print("Parsed successfully!")
EndOfInput ==
    /\ pc = "loop"
    /\ enumerator' = enumerator + 1
    /\ success' = TRUE
    /\ pc' = "exit0"
    /\ UNCHANGED <<parser, line, shape, docker>>

Next == ReadLine \/ EndOfInput

Spec == Init /\ [][Next]_vars

-----------------------------------------------------------------------------
(* Vocabulary of the properties *)

\* the flags below the mode: everything but the major-version marker flag
SubFlags == FlagNames \ {"major_ver", "task", "release"}

\* this step is one iteration of the loop that read a line (the line is line')
Reading == pc = "loop" /\ pc' # "exit0" /\ enumerator' = enumerator + 1

\* parser p has stopped the run with exactly one diagnostic: line l, at position n,
\* expecting msg
Diagnosed(p, n, l, msg) ==
    /\ p.exited
    /\ p.printed = <<[line_number |-> n, line |-> l, expected |-> msg]>>

TaskShapes == {"task", "task_arch", "task_type", "task_description", "task_closed"}

ReleaseShapes ==
    { "release", "release_date", "release_base", "release_dependencies",
      "release_protocol", "release_closed" }

DescribedReleaseShapes ==
    ReleaseShapes \cup {"release_type", "release_description", "release_described_closed"}

-----------------------------------------------------------------------------
(* C1.  From Undetermined mode, a well-formed task declaration, an         *)
(* architecture line, a type line, a description first line, any number of *)
(* continuation lines and an empty line raise no diagnostic, and after the *)
(* empty line the task flag, the release flag and every sub-flag are       *)
(* false.                                                                  *)
C1_TaskBlockAccepted ==
    shape.stage \in TaskShapes =>
        /\ parser.printed = <<>>
        /\ ~parser.exited
        /\ shape.stage = "task_closed" =>
              /\ Undetermined(parser.state)
              /\ \A k \in SubFlags : ~parser.state[k]

C1_Witness ==
    /\ shape.stage = "task_closed"
    /\ shape.cont
    /\ line = L_blank
    /\ Undetermined(parser.state)
    /\ parser.printed = <<>>

(* C2.  From Undetermined mode, a well-formed release or prerelease        *)
(* declaration, a date line, at most one base line, a dependencies line, a *)
(* protocol line and an empty line raise no diagnostic, and after the      *)
(* empty line the engine is Undetermined with every release-specific flag  *)
(* false.                                                                  *)
C2_ReleaseBlockAccepted ==
    shape.stage \in ReleaseShapes =>
        /\ parser.printed = <<>>
        /\ ~parser.exited
        /\ shape.stage = "release_closed" =>
              /\ Undetermined(parser.state)
              /\ \A k \in ReleaseKeys : ~parser.state[k]

C2_Witness ==
    /\ shape.stage = "release_closed"
    /\ shape.base
    /\ line = L_blank
    /\ \A k \in ReleaseKeys : ~parser.state[k]
    /\ parser.printed = <<>>

(* C3.  A release block whose date, dependencies and protocol lines are    *)
(* followed by a type line, a description first line, any number of        *)
(* continuation lines and an empty line raises no diagnostic, and the      *)
(* engine is Undetermined after the empty line.                            *)
C3_DescribedReleaseAccepted ==
    shape.stage \in DescribedReleaseShapes =>
        /\ parser.printed = <<>>
        /\ pc # "exit1"
        /\ shape.stage = "release_described_closed" => Undetermined(parser.state)

C3_Witness ==
    /\ shape.stage = "release_described_closed"
    /\ shape.cont
    /\ line = L_blank
    /\ Undetermined(parser.state)
    /\ parser.printed = <<>>

(* C4.  In a release block, a dependencies or protocol line read before    *)
(* any date line stops the run with a diagnostic at that line demanding    *)
(* the date; a protocol line read after the date and before any            *)
(* dependencies line stops it with a diagnostic at that line demanding the *)
(* dependencies.                                                           *)
C4_OutOfOrderFieldDiagnosed ==
    [][ (Reading /\ parser.state.release /\ ~parser.state.task) =>
          /\ (~parser.state.date /\ line' \in DependenciesLines \cup ProtocolLines)
                => Diagnosed(parser', enumerator', line', MsgDate)
          /\ ( /\ parser.state.date
               /\ ~parser.state.dependencies
               /\ line' \in ProtocolLines )
                => Diagnosed(parser', enumerator', line', MsgDependencies)
      ]_vars

C4_Witness ==
    /\ pc = "exit1"
    /\ line \in ProtocolLines
    /\ parser.state.release
    /\ parser.state.date
    /\ ~parser.state.dependencies
    /\ Diagnosed(parser, enumerator, line, MsgDependencies)

(* C5 (as claimed).  In a release block with the protocol satisfied and no *)
(* type line yet, a line that is not a major version marker is accepted    *)
(* only if it is empty (the block closes) or a type line (the description  *)
(* section opens); any other line stops the run with a diagnostic.         *)
C5_OnlyBlankOrTypeAfterProtocol ==
    [][ ( /\ Reading
          /\ parser.state.release
          /\ parser.state.protocol
          /\ ~parser.state.type
          /\ line' \notin MajorMarkers ) =>
            IF line' \in BlankLines
            THEN ~parser'.exited /\ Undetermined(parser'.state)
            ELSE IF line' \in TypeLines
            THEN ~parser'.exited /\ parser'.state.type
            ELSE parser'.exited /\ Len(parser'.printed) = 1
      ]_vars

(* C6 (as claimed).  The run ends successfully, printing the success       *)
(* indicator, only with the engine in Undetermined mode: end of input      *)
(* inside an open task or release block is a failure.                      *)
C6_SuccessOnlyWhenUndetermined ==
    (success \/ pc = "exit0") => Undetermined(parser.state)

(* C7.  Fail-fast: a run prints at most one diagnostic; once one is        *)
(* printed no line is read, nothing of the state changes, and the success  *)
(* indicator is never printed.                                             *)
C7_FailFast ==
    /\ [](Len(parser.printed) <= 1)
    /\ [](parser.printed # <<>> => ~success /\ pc = "exit1")
    /\ [][parser.printed # <<>> => UNCHANGED vars]_vars

C7_Witness ==
    /\ Len(parser.printed) = 1
    /\ pc = "exit1"
    /\ enumerator < MaxLines
    /\ ~success

(* C8.  In Undetermined mode a line that is not a major version marker     *)
(* opens a block only if it is a well-formed task declaration (then the    *)
(* engine is in a task block awaiting the architecture) or a well-formed   *)
(* release or prerelease declaration (then it is in a release block        *)
(* awaiting the date); any other line stops the run with a diagnostic and  *)
(* no block open.                                                          *)
C8_OnlyDeclarationsOpenBlocks ==
    [][ (Reading /\ Undetermined(parser.state) /\ line' \notin MajorMarkers) =>
            IF line' \in TaskDeclarations
            THEN /\ ~parser'.exited
                 /\ parser'.state.task /\ ~parser'.state.release
                 /\ \A k \in SubFlags : ~parser'.state[k]
            ELSE IF line' \in ReleaseDeclarations
            THEN /\ ~parser'.exited
                 /\ parser'.state.release /\ ~parser'.state.task
                 /\ \A k \in SubFlags : ~parser'.state[k]
            ELSE /\ parser'.exited
                 /\ Len(parser'.printed) = 1
                 /\ parser'.printed[1].line = line'
                 /\ Undetermined(parser'.state)
      ]_vars

C8_Witness ==
    /\ pc = "exit1"
    /\ line = L_blank
    /\ Undetermined(parser.state)
    /\ Diagnosed(parser, enumerator, L_blank, MsgIndent2)

(* C9.  In Undetermined mode a two-space-indented line that starts with    *)
(* "- task: " and whose value is not a link starting with http stops the   *)
(* run with the diagnostic expecting the task declaration shape, not the   *)
(* one for an unrecognised keyword.                                        *)
MalformedTaskDeclarations == {L_task_nolink, L_task_http}

C9_MalformedTaskDiagnosed ==
    [][ ( /\ Reading
          /\ Undetermined(parser.state)
          /\ line' \in MalformedTaskDeclarations ) =>
            /\ Diagnosed(parser', enumerator', line', MsgTask)
            /\ MsgTask # MsgKeyword
      ]_vars

C9_Witness ==
    /\ pc = "exit1"
    /\ line = L_task_nolink
    /\ Undetermined(parser.state)
    /\ Diagnosed(parser, enumerator, L_task_nolink, MsgTask)

(* C10.  In Undetermined mode a two-space-indented line that starts with   *)
(* "- release: " or "- prerelease: " and whose value is not one or more    *)
(* digits stops the run with the diagnostic expecting the release          *)
(* declaration shape, not the one for an unrecognised keyword nor the one  *)
(* for a task.                                                             *)
MalformedReleaseDeclarations == {L_release_bad, L_prerelease_bad}

C10_MalformedReleaseDiagnosed ==
    [][ ( /\ Reading
          /\ Undetermined(parser.state)
          /\ line' \in MalformedReleaseDeclarations ) =>
            /\ Diagnosed(parser', enumerator', line', MsgRelease)
            /\ MsgRelease \notin {MsgKeyword, MsgTask}
      ]_vars

C10_Witness ==
    /\ pc = "exit1"
    /\ line = L_prerelease_bad
    /\ Undetermined(parser.state)
    /\ Diagnosed(parser, enumerator, L_prerelease_bad, MsgRelease)

-----------------------------------------------------------------------------
(* Vocabulary of the field-level properties *)

\* the number of spaces a line starts with
RECURSIVE LeadingSpaces(_)
LeadingSpaces(s) ==
    IF s # <<>> /\ s[1] = " " THEN 1 + LeadingSpaces(Tail(s)) ELSE 0

\* a line with exactly four leading spaces and a character that is no white
\* space after them
FourSpaceIndented(l) == LeadingSpaces(l) = 4 /\ Len(l) > 4 /\ ~IsSpace(l[5])

\* the sub-states of sections 4.2 and 4.3 of the specification, from the flags
InTask(st) == st.task /\ ~st.release
InRelease(st) == st.release /\ ~st.task
AwaitingArch(st) == InTask(st) /\ ~st.arch /\ ~st.type /\ ~st.description
AwaitingType(st) == InTask(st) /\ st.arch /\ ~st.type /\ ~st.description
TaskAwaitingDescription(st) == InTask(st) /\ st.arch /\ st.type /\ ~st.description
TaskInDescription(st) == InTask(st) /\ st.arch /\ st.type /\ st.description
AwaitingDate(st) == InRelease(st) /\ ~st.date

\* a structural position that holds a field line: inside a block, before its type line
FieldPosition(st) == (st.task \/ st.release) /\ ~st.type

(* C11 (as claimed).  A non-empty line whose number of leading spaces is   *)
(* not the one its position requires (2 in Undetermined mode, 4 for a      *)
(* field inside a task or release block) stops the run with the            *)
(* indentation diagnostic at that line, and with no other diagnostic.      *)
C11_WrongIndentAsClaimed ==
    [][ (Reading /\ line' # <<>>) =>
          /\ (Undetermined(parser.state) /\ LeadingSpaces(line') # 2)
                => Diagnosed(parser', enumerator', line', MsgIndent2)
          /\ (FieldPosition(parser.state) /\ LeadingSpaces(line') # 4)
                => Diagnosed(parser', enumerator', line', MsgIndent4)
      ]_vars

(* C11 (amended).  The same for every non-empty line that is not a major   *)
(* version marker.                                                         *)
C11_WrongIndentDiagnosed ==
    [][ (Reading /\ line' # <<>> /\ line' \notin MajorMarkers) =>
          /\ (Undetermined(parser.state) /\ LeadingSpaces(line') # 2)
                => Diagnosed(parser', enumerator', line', MsgIndent2)
          /\ (FieldPosition(parser.state) /\ LeadingSpaces(line') # 4)
                => Diagnosed(parser', enumerator', line', MsgIndent4)
      ]_vars

C11_Witness ==
    /\ pc = "exit1"
    /\ line = L_arch5
    /\ AwaitingArch(parser.state)
    /\ Diagnosed(parser, enumerator, L_arch5, MsgIndent4)

(* C12 (as claimed, for lines that are not major version markers).  In a   *)
(* task block in the InDescription sub-state a line is accepted only if    *)
(* it is a description continuation (six leading spaces) or the empty      *)
(* line; any other line, a repeated architecture or type line included,    *)
(* stops the run with a diagnostic.                                        *)
C12_OnlyContinuationOrBlankInDescription ==
    [][ ( /\ Reading
          /\ TaskInDescription(parser.state)
          /\ line' \notin MajorMarkers
          /\ line' \notin DescriptionContinuations \cup BlankLines ) =>
            parser'.exited /\ Len(parser'.printed) = 1
      ]_vars

(* C13 (as claimed).  In a release block a base line is accepted only      *)
(* after the date, before the dependencies and when no base line was       *)
(* accepted before; any other base line stops the run with a diagnostic.   *)
C13_BaseOnceBeforeDependencies ==
    [][ (Reading /\ InRelease(parser.state) /\ line' \in BaseLines) =>
            IF /\ parser.state.date
               /\ ~parser.state.base
               /\ ~parser.state.dependencies
            THEN ~parser'.exited /\ parser'.state.base
            ELSE parser'.exited /\ Len(parser'.printed) = 1
      ]_vars

(* C14 (as claimed).  After a type line was accepted in a release block    *)
(* the description lines are treated as in a task block: a description     *)
(* first line sets the description, a continuation after it changes        *)
(* nothing, an empty line after it closes the block, and an empty line     *)
(* before any description first line stops the run with the diagnostic     *)
(* demanding a description.                                                *)
C14_ReleaseDescriptionLikeTask ==
    [][ (Reading /\ InRelease(parser.state) /\ parser.state.type) =>
          /\ line' \in DescriptionFirstLines
                => ~parser'.exited /\ parser'.state.description
                     /\ InRelease(parser'.state)
          /\ (parser.state.description /\ line' \in DescriptionContinuations)
                => ~parser'.exited /\ parser'.state = parser.state
          /\ (parser.state.description /\ line' \in BlankLines)
                => ~parser'.exited /\ Undetermined(parser'.state)
          /\ (~parser.state.description /\ line' \in BlankLines)
                => Diagnosed(parser', enumerator', line', MsgDescription)
      ]_vars

(* C15.  In every state a major version marker raises no diagnostic and    *)
(* changes no flag but the marker flag, which it sets: the mode and the    *)
(* sub-state stay as they were, no block is opened or closed.              *)
C15_MarkerOnlyRecorded ==
    [][ (Reading /\ line' \in MajorMarkers) =>
          /\ ~parser'.exited
          /\ parser'.printed = parser.printed
          /\ pc' = "loop"
          /\ parser'.state = [parser.state EXCEPT !.major_ver = TRUE]
      ]_vars

C15_Witness ==
    /\ line = L_major2
    /\ enumerator > 0
    /\ parser.state.major_ver
    /\ InRelease(parser.state)
    /\ parser.state.type
    /\ parser.state.description
    /\ parser.printed = <<>>

(* C16.  A diagnostic reports the 1-based position of the line that        *)
(* caused it, which is the number of lines read so far, and that line's    *)
(* text.                                                                   *)
C16_DiagnosticLocatesLine ==
    \A i \in 1..Len(parser.printed) :
        /\ parser.printed[i].line_number = enumerator
        /\ parser.printed[i].line = line
        /\ enumerator >= 1

C16_Witness ==
    /\ pc = "exit1"
    /\ enumerator = 4
    /\ Len(parser.printed) = 1
    /\ parser.printed[1].line_number = 4
    /\ parser.printed[1].line = L_protocol
    /\ line = L_protocol

(* C17 (as claimed).  In a task block awaiting the architecture only an    *)
(* architecture line advances the sub-state, to awaiting the type; every   *)
(* other line stops the run with a diagnostic: the indentation diagnostic  *)
(* if the line is non-empty and not four-space-indented, otherwise the one *)
(* demanding the architecture.                                             *)
C17_AwaitingArchAsClaimed ==
    [][ (Reading /\ AwaitingArch(parser.state)) =>
            IF line' \in ArchLines
            THEN ~parser'.exited /\ AwaitingType(parser'.state)
            ELSE IF line' # <<>> /\ ~FourSpaceIndented(line')
            THEN Diagnosed(parser', enumerator', line', MsgIndent4)
            ELSE Diagnosed(parser', enumerator', line', MsgArch)
      ]_vars

(* C17 (amended).  The same for every line that is not a major version     *)
(* marker; a major version marker is accepted and leaves the sub-state     *)
(* awaiting the architecture.                                              *)
C17_AwaitingArch ==
    [][ (Reading /\ AwaitingArch(parser.state)) =>
            IF line' \in MajorMarkers
            THEN ~parser'.exited /\ AwaitingArch(parser'.state)
            ELSE IF line' \in ArchLines
            THEN ~parser'.exited /\ AwaitingType(parser'.state)
            ELSE IF line' # <<>> /\ ~FourSpaceIndented(line')
            THEN Diagnosed(parser', enumerator', line', MsgIndent4)
            ELSE Diagnosed(parser', enumerator', line', MsgArch)
      ]_vars

C17_Witness ==
    /\ pc = "exit1"
    /\ line = L_blank
    /\ AwaitingArch(parser.state)
    /\ Diagnosed(parser, enumerator, L_blank, MsgArch)

(* C18 (as claimed, for lines that are not major version markers).  In a   *)
(* task block awaiting the type only a type line advances the sub-state;   *)
(* every other line, a second architecture line included, stops the run    *)
(* with the diagnostic demanding a type or with the indentation            *)
(* diagnostic.                                                             *)
C18_AwaitingType ==
    [][ (Reading /\ AwaitingType(parser.state) /\ line' \notin MajorMarkers) =>
            IF line' \in TypeLines
            THEN ~parser'.exited /\ TaskAwaitingDescription(parser'.state)
            ELSE \/ Diagnosed(parser', enumerator', line', MsgType)
                 \/ Diagnosed(parser', enumerator', line', MsgIndent4)
      ]_vars

(* C19 (as claimed, for lines that are not major version markers).  In a   *)
(* task block awaiting the first description line only a line of six       *)
(* spaces and a non-space character advances the sub-state, to             *)
(* InDescription; every other line, the empty line, the line of six        *)
(* spaces, a repeated architecture line and a repeated type line           *)
(* included, stops the run with the diagnostic demanding a description.    *)
C19_AwaitingDescription ==
    [][ ( /\ Reading
          /\ TaskAwaitingDescription(parser.state)
          /\ line' \notin MajorMarkers ) =>
            IF LeadingSpaces(line') = 6 /\ Len(line') > 6
            THEN ~parser'.exited /\ TaskInDescription(parser'.state)
            ELSE Diagnosed(parser', enumerator', line', MsgDescription)
      ]_vars

(* C20 (as claimed, for lines that are not major version markers).  In a   *)
(* release block awaiting the date only a date line is accepted, and it    *)
(* sets the date; every other line stops the run with the indentation      *)
(* diagnostic or the one demanding the date; and once the date is set a    *)
(* further date line is not accepted.                                      *)
C20_DateOnce ==
    [][ (Reading /\ InRelease(parser.state) /\ line' \notin MajorMarkers) =>
          /\ ~parser.state.date =>
                IF line' \in DateLines
                THEN ~parser'.exited /\ parser'.state.date
                ELSE \/ Diagnosed(parser', enumerator', line', MsgDate)
                     \/ Diagnosed(parser', enumerator', line', MsgIndent4)
          /\ (parser.state.date /\ line' \in DateLines) => parser'.exited
      ]_vars

-----------------------------------------------------------------------------
(* C21.  Closing a release block sets the flags release, date,             *)
(* dependencies, base, protocol, type and description to false and leaves  *)
(* the major-version marker flag, the task flag and the architecture flag  *)
(* as they were.                                                           *)
C21_ReleaseCloseKeepsOtherFlags ==
    [][ (Reading /\ InRelease(parser.state) /\ ~parser'.state.release) =>
          /\ \A k \in ReleaseKeys : ~parser'.state[k]
          /\ \A k \in FlagNames \ ReleaseKeys : parser'.state[k] = parser.state[k]
      ]_vars

C21_Witness ==
    /\ shape.stage = "release_described_closed"
    /\ line = L_blank
    /\ parser.state.major_ver
    /\ \A k \in ReleaseKeys : ~parser.state[k]
    /\ pc = "loop"

(* C22.  In every reachable state the task flag and the release flag are   *)
(* not both true; date, dependencies, base and protocol are true only      *)
(* while the release flag is; arch is true only while the task flag is;    *)
(* and in Undetermined mode arch, type, description, date, dependencies,   *)
(* base and protocol are all false.                                        *)
C22_ModeUnambiguous ==
    /\ ~(parser.state.task /\ parser.state.release)
    /\ \A k \in {"date", "dependencies", "base", "protocol"} :
          parser.state[k] => parser.state.release
    /\ parser.state.arch => parser.state.task
    /\ Undetermined(parser.state) => \A k \in SubFlags : ~parser.state[k]

C22_Witness ==
    /\ Undetermined(parser.state)
    /\ shape.stage = "release_closed"
    /\ shape.base
    /\ enumerator = MaxLines
    /\ \A k \in SubFlags : ~parser.state[k]

(* C24.  A block is closed (the engine goes from a task or release block   *)
(* to Undetermined) only by an empty line, and only when architecture,     *)
(* type and description of the task block, or date, dependencies and       *)
(* protocol of the release block, are all satisfied; an empty line read    *)
(* earlier in a block stops the run with a diagnostic.                     *)
TaskComplete(st) == st.arch /\ st.type /\ st.description
ReleaseComplete(st) == st.date /\ st.dependencies /\ st.protocol

C24_ClosedOnlyWhenComplete ==
    [][ Reading =>
          /\ (InTask(parser.state) /\ Undetermined(parser'.state))
                => line' = <<>> /\ TaskComplete(parser.state)
          /\ (InRelease(parser.state) /\ Undetermined(parser'.state))
                => line' = <<>> /\ ReleaseComplete(parser.state)
          /\ ( /\ line' = <<>>
               /\ \/ InTask(parser.state) /\ ~TaskComplete(parser.state)
                  \/ InRelease(parser.state) /\ ~ReleaseComplete(parser.state) )
                => /\ parser'.exited
                   /\ Len(parser'.printed) = 1
                   /\ parser'.state = parser.state
      ]_vars

C24_Witness ==
    /\ pc = "exit1"
    /\ line = L_blank
    /\ TaskAwaitingDescription(parser.state)
    /\ Diagnosed(parser, enumerator, L_blank, MsgDescription)

(* C25.  In every reachable state the flags respect the order of the       *)
(* fields: description implies type; in a task block type implies arch;    *)
(* in a release block type implies protocol, protocol implies              *)
(* dependencies, dependencies implies date and base implies date.          *)
C25_FlagsRespectFieldOrder ==
    /\ parser.state.description => parser.state.type
    /\ parser.state.task => (parser.state.type => parser.state.arch)
    /\ parser.state.release =>
          /\ parser.state.type => parser.state.protocol
          /\ parser.state.protocol => parser.state.dependencies
          /\ parser.state.dependencies => parser.state.date
          /\ parser.state.base => parser.state.date

C25_Witness ==
    /\ InRelease(parser.state)
    /\ parser.state.description
    /\ parser.state.type
    /\ parser.state.protocol
    /\ parser.state.dependencies
    /\ parser.state.base
    /\ parser.state.date

(* C26.  In a task or release block whose description has begun, a line    *)
(* of six spaces and nothing else raises no diagnostic and leaves every    *)
(* flag as it was; such a block is closed only by the line with no         *)
(* character at all.                                                       *)
InDescription(st) == (st.task \/ st.release) /\ st.type /\ st.description

C26_BlankContinuationKeepsBlock ==
    [][ (Reading /\ InDescription(parser.state)) =>
          /\ line' = L_desc_blank
                => ~parser'.exited /\ parser'.state = parser.state
          /\ Undetermined(parser'.state) => line' = <<>>
      ]_vars

C26_Witness ==
    /\ line = L_desc_blank
    /\ InRelease(parser.state)
    /\ InDescription(parser.state)
    /\ shape.stage = "release_description"
    /\ shape.cont
    /\ pc = "loop"

-----------------------------------------------------------------------------
(* The loop of parse_yaml has no suspension point of its own: on a finite  *)
(* input every input() call returns a line or raises EOFError, so the      *)
(* driver keeps taking steps until it has ended.                           *)
LiveSpec == Spec /\ WF_vars(Next)

(* C27.  On a finite input the run ends, in exactly one of two ways: with  *)
(* a single diagnostic and the failure status, at the first line that      *)
(* raised one, or with the success indicator after the lines were read;    *)
(* the lines are processed one by one in the order of the input.           *)
C27_EndsInOneOutcome ==
    /\ <>(pc \in {"exit0", "exit1"})
    /\ [](pc = "exit1" => Len(parser.printed) = 1 /\ ~success)
    /\ [](pc = "exit0" => parser.printed = <<>> /\ success)
    /\ [](pc = "loop" => parser.printed = <<>> /\ ~success)
    /\ [][pc # "loop" => UNCHANGED vars]_vars
    /\ [][Reading => /\ enumerator' = enumerator + 1
                     /\ parser'.line_number = enumerator'
                     /\ parser.line_number = enumerator]_vars

C27_Witness ==
    /\ pc = "exit0"
    /\ success
    /\ enumerator = MaxLines + 1
    /\ parser.line_number = MaxLines
    /\ parser.printed = <<>>

-----------------------------------------------------------------------------
(* docker-manager.py: the DockerManager class                               *)
(*                                                                          *)
(* The value of the variable docker is the DockerManager process: what it   *)
(* finds around it (os.environ, the file docker-config.py), the config      *)
(* dictionary of the object, the last method called with its arguments, the *)
(* commands that call handed to run_command, in order and with their        *)
(* outcome, and the tuple the call returned.  Python's None is the string   *)
(* below; every other value is a string as in the source.                   *)

MaxEnvVars == 1
MaxFileAttrs == 1

None == "<None>"

\* the keys of the dictionary of _load_config, and its built-in values
DefaultConfig ==
    [dockerfile   |-> "Dockerfile",
     image_name   |-> "myapp",
     registry_url |-> None,
     latest_tag   |-> "latest",
     username     |-> None,
     password     |-> None,
     platform     |-> "linux/amd64",
     builder      |-> "default",
     cache_to     |-> None,
     cache_from   |-> None]

\* key.upper()
upper(key) ==
    CASE key = "dockerfile"   -> "DOCKERFILE"
      [] key = "image_name"   -> "IMAGE_NAME"
      [] key = "registry_url" -> "REGISTRY_URL"
      [] key = "latest_tag"   -> "LATEST_TAG"
      [] key = "username"     -> "USERNAME"
      [] key = "password"     -> "PASSWORD"
      [] key = "platform"     -> "PLATFORM"
      [] key = "builder"      -> "BUILDER"
      [] key = "cache_to"     -> "CACHE_TO"
      [] key = "cache_from"   -> "CACHE_FROM"

\* f'DOCKER_{key.upper()}'
env_key(key) ==
    CASE upper(key) = "DOCKERFILE"   -> "DOCKER_DOCKERFILE"
      [] upper(key) = "IMAGE_NAME"   -> "DOCKER_IMAGE_NAME"
      [] upper(key) = "REGISTRY_URL" -> "DOCKER_REGISTRY_URL"
      [] upper(key) = "LATEST_TAG"   -> "DOCKER_LATEST_TAG"
      [] upper(key) = "USERNAME"     -> "DOCKER_USERNAME"
      [] upper(key) = "PASSWORD"     -> "DOCKER_PASSWORD"
      [] upper(key) = "PLATFORM"     -> "DOCKER_PLATFORM"
      [] upper(key) = "BUILDER"      -> "DOCKER_BUILDER"
      [] upper(key) = "CACHE_TO"     -> "DOCKER_CACHE_TO"
      [] upper(key) = "CACHE_FROM"   -> "DOCKER_CACHE_FROM"

\* faulty variant: the file is read after the environment and wins over it
_load_config_file_last(environ, config_file) ==
    LET config == DefaultConfig
        from_environ ==
            [key \in DOMAIN config |->
                IF env_key(key) \in DOMAIN environ
                THEN environ[env_key(key)]
                ELSE config[key]]
    IN  IF config_file.exists /\ ~config_file.raises
        THEN [key \in DOMAIN config |->
                IF upper(key) \in DOMAIN config_file.defines
                THEN config_file.defines[upper(key)]
                ELSE from_environ[key]]
        ELSE from_environ

\* _load_config.  environ is os.environ, a function from the names that are
\* set; config_file is docker-config.py: whether it exists, whether executing
\* it raises, and the upper-case names it assigns.  A name the file leaves
\* out was preset with the built-in value before the file ran (lines 56-58);
\* an import that raises is caught and leaves the dictionary as it was.
_load_config(environ, config_file) ==
    LET config == DefaultConfig
        from_file ==
            IF config_file.exists /\ ~config_file.raises
            THEN [key \in DOMAIN config |->
                    IF upper(key) \in DOMAIN config_file.defines
                    THEN config_file.defines[upper(key)]
                    ELSE config[key]]
            ELSE config
    IN  [key \in DOMAIN from_file |->
            IF env_key(key) \in DOMAIN environ
            THEN environ[env_key(key)]
            ELSE from_file[key]]

\* what can stand in the environment and in the file
EnvNames == {env_key(key) : key \in DOMAIN DefaultConfig}
AttrNames == {upper(key) : key \in DOMAIN DefaultConfig}
EnvValues == {"env-value", ""}
FileValues == {"file-value", None}

Environs(names, n) ==
    UNION {[S -> EnvValues] : S \in {T \in SUBSET names : Cardinality(T) <= n}}

ConfigFiles(names, n) ==
    {[exists |-> FALSE, raises |-> FALSE, defines |-> <<>>]}
    \cup
    {[exists |-> TRUE, raises |-> r, defines |-> d] :
        r \in BOOLEAN,
        d \in UNION {[S -> FileValues] :
                        S \in {T \in SUBSET names : Cardinality(T) <= n}}}

\* the process before DockerManager(...) at line 727
Started(environ, config_file) ==
    [pc          |-> "start",
     environ     |-> environ,
     config_file |-> config_file,
     config      |-> <<>>,
     call        |-> [op |-> "none"],
     executed    |-> <<>>,
     returned    |-> <<>>]

ParserIdle ==
    /\ parser = NewParser
    /\ enumerator = 0
    /\ line = <<>>
    /\ pc = "loop"
    /\ success = FALSE
    /\ shape = NoShape

ConfigInit ==
    /\ ParserIdle
    /\ \E environ \in Environs(EnvNames, MaxEnvVars) :
       \E config_file \in ConfigFiles(AttrNames, MaxFileAttrs) :
            docker = Started(environ, config_file)

\* __init__: the configuration is loaded; _check_buildx_installed asks for
\* docker buildx version and only logs what it finds
Construct ==
    /\ docker.pc = "start"
    /\ docker' = [docker EXCEPT
                    !.pc = "ready",
                    !.config = _load_config(docker.environ, docker.config_file)]
    /\ UNCHANGED <<parser, enumerator, line, pc, success, shape>>

ConfigNext == Construct

ConfigSpec == ConfigInit /\ [][ConfigNext]_vars

-----------------------------------------------------------------------------
(* Configuration precedence *)

\* the environment variable and the file attribute that belong to a key
VariableOf ==
    [dockerfile   |-> "DOCKER_DOCKERFILE",   image_name |-> "DOCKER_IMAGE_NAME",
     registry_url |-> "DOCKER_REGISTRY_URL", latest_tag |-> "DOCKER_LATEST_TAG",
     username     |-> "DOCKER_USERNAME",     password   |-> "DOCKER_PASSWORD",
     platform     |-> "DOCKER_PLATFORM",     builder    |-> "DOCKER_BUILDER",
     cache_to     |-> "DOCKER_CACHE_TO",     cache_from |-> "DOCKER_CACHE_FROM"]

AttributeOf ==
    [dockerfile   |-> "DOCKERFILE",   image_name |-> "IMAGE_NAME",
     registry_url |-> "REGISTRY_URL", latest_tag |-> "LATEST_TAG",
     username     |-> "USERNAME",     password   |-> "PASSWORD",
     platform     |-> "PLATFORM",     builder    |-> "BUILDER",
     cache_to     |-> "CACHE_TO",     cache_from |-> "CACHE_FROM"]

EnvironmentSets(key) == VariableOf[key] \in DOMAIN docker.environ

\* a file that cannot be imported defines nothing
FileDefines(key) ==
    /\ docker.config_file.exists
    /\ ~docker.config_file.raises
    /\ AttributeOf[key] \in DOMAIN docker.config_file.defines

\* C28: for every configuration key of a constructed DockerManager, the
\* resolved value is that of the environment variable DOCKER_<KEY> when it is
\* set, whatever the file says; otherwise the value docker-config.py defines
\* for the key; otherwise the built-in default.
C28_ConfigPrecedence ==
    docker.pc = "ready" =>
        \A key \in DOMAIN VariableOf :
            docker.config[key] =
                IF EnvironmentSets(key)
                THEN docker.environ[VariableOf[key]]
                ELSE IF FileDefines(key)
                THEN docker.config_file.defines[AttributeOf[key]]
                ELSE DefaultConfig[key]

\* a manager built where the environment and the file both give the same key
\* (with different values), and another key comes from neither
C28_Witness ==
    /\ docker.pc = "ready"
    /\ \E key \in DOMAIN VariableOf :
        /\ EnvironmentSets(key)
        /\ FileDefines(key)
        /\ docker.environ[VariableOf[key]] #
                docker.config_file.defines[AttributeOf[key]]
        /\ docker.config[key] = docker.environ[VariableOf[key]]
    /\ \E key \in DOMAIN VariableOf :
        /\ ~EnvironmentSets(key)
        /\ ~FileDefines(key)
        /\ docker.config[key] = DefaultConfig[key]

-----------------------------------------------------------------------------
(* DockerManager: the commands                                              *)
(*                                                                          *)
(* A command line is the sequence of the pieces its f-string is built from. *)
(* What a command does is outside the program: run_command is handed its    *)
(* outcome, TRUE when the shell returned 0 and FALSE when subprocess.run    *)
(* raised CalledProcessError.  outcomes[i] is the outcome of the i-th       *)
(* command a call runs.                                                     *)

\* run_command with capture_output=False: (True, None) or (False, None)
run_command(cmd, outcome) == <<outcome, None>>

\* one entry of the record of commands handed to run_command
Ran(cmd, outcome) == [cmd |-> cmd, success |-> run_command(cmd, outcome)[1]]

\* Python's truth value of an optional string
Truthy(value) == value # None /\ value # ""

\* faulty variant: the result of docker tag is ignored
push_ignoring_tag(config, tag, registry_url, outcomes) ==
    LET tag_ == IF tag = None THEN config["latest_tag"] ELSE tag
        registry_url_ ==
            IF registry_url = None THEN config["registry_url"] ELSE registry_url
        source_image == <<config["image_name"], ":", tag_>>
        target_image == <<registry_url_, "/">> \o source_image
        cmd_tag == <<"docker tag ">> \o source_image \o <<" ">> \o target_image
        cmd_push == <<"docker push ">> \o target_image
    IN  IF ~Truthy(registry_url_)
        THEN [executed |-> <<>>, returned |-> <<FALSE, None>>]
        ELSE [executed |-> <<Ran(cmd_tag, outcomes[1]),
                             Ran(cmd_push, outcomes[2])>>,
              returned |-> run_command(cmd_push, outcomes[2])]

\* push
push(config, tag, registry_url, outcomes) ==
    LET tag_ == IF tag = None THEN config["latest_tag"] ELSE tag
        registry_url_ ==
            IF registry_url = None THEN config["registry_url"] ELSE registry_url
        source_image == <<config["image_name"], ":", tag_>>
        target_image == <<registry_url_, "/">> \o source_image
        cmd_tag == <<"docker tag ">> \o source_image \o <<" ">> \o target_image
        cmd_push == <<"docker push ">> \o target_image
    IN  IF ~Truthy(registry_url_)
        THEN [executed |-> <<>>, returned |-> <<FALSE, None>>]
        ELSE IF ~run_command(cmd_tag, outcomes[1])[1]
        THEN [executed |-> <<Ran(cmd_tag, outcomes[1])>>,
              returned |-> <<FALSE, None>>]
        ELSE [executed |-> <<Ran(cmd_tag, outcomes[1]),
                             Ran(cmd_push, outcomes[2])>>,
              returned |-> run_command(cmd_push, outcomes[2])]

\* the list clean builds at lines 538-550
prune_commands(remove_containers, remove_images, remove_volumes, remove_build_cache) ==
    (IF remove_containers THEN << <<"docker container prune -f">> >> ELSE <<>>)
    \o (IF remove_images THEN << <<"docker image prune -af">> >> ELSE <<>>)
    \o (IF remove_volumes THEN << <<"docker volume prune -f">> >> ELSE <<>>)
    \o (IF remove_build_cache THEN << <<"docker builder prune -af">> >> ELSE <<>>)

\* the commands of a list up to and including the first that fails
RECURSIVE UntilFailure(_, _, _)
UntilFailure(commands, outcomes, i) ==
    IF i > Len(commands) THEN <<>>
    ELSE IF ~outcomes[i] THEN <<Ran(commands[i], outcomes[i])>>
    ELSE <<Ran(commands[i], outcomes[i])>>
         \o UntilFailure(commands, outcomes, i + 1)

\* faulty variant: the loop is left at the first command that fails
clean_until_failure(remove_containers, remove_images, remove_volumes, remove_build_cache, outcomes) ==
    LET commands == prune_commands(remove_containers, remove_images,
                                   remove_volumes, remove_build_cache)
        executed == UntilFailure(commands, outcomes, 1)
    IN  IF commands = <<>>
        THEN [executed |-> <<>>, returned |-> <<TRUE, None>>]
        ELSE [executed |-> executed,
              returned |-> <<\A i \in DOMAIN executed : executed[i].success,
                             None>>]

\* clean
clean(remove_containers, remove_images, remove_volumes, remove_build_cache, outcomes) ==
    LET commands == prune_commands(remove_containers, remove_images,
                                   remove_volumes, remove_build_cache)
        executed == [i \in DOMAIN commands |-> Ran(commands[i], outcomes[i])]
        all_success == \A i \in DOMAIN commands : executed[i].success
    IN  IF commands = <<>>
        THEN [executed |-> <<>>, returned |-> <<TRUE, None>>]
        ELSE [executed |-> executed, returned |-> <<all_success, None>>]

\* what main can be started with
Tags == {None, "v1"}
Registries == {None, "", "registry.example.com"}
Outcomes == [1..4 -> BOOLEAN]

\* the keys push reads
PushKeys == {"image_name", "latest_tag", "registry_url"}

DockerInit ==
    /\ ParserIdle
    /\ \E environ \in Environs({env_key(key) : key \in PushKeys}, MaxEnvVars) :
       \E config_file \in ConfigFiles({upper(key) : key \in PushKeys},
                                      MaxFileAttrs) :
            docker = Started(environ, config_file)

\* main, command push: manager.push(tag=args.tag, registry_url=args.registry)
Push ==
    /\ docker.pc = "ready"
    /\ \E tag \in Tags, registry_url \in Registries, outcomes \in Outcomes :
        LET r == push(docker.config, tag, registry_url, outcomes)
        IN  docker' = [docker EXCEPT
                        !.pc = "done",
                        !.call = [op |-> "push", tag |-> tag,
                                  registry_url |-> registry_url],
                        !.executed = r.executed,
                        !.returned = r.returned]
    /\ UNCHANGED <<parser, enumerator, line, pc, success, shape>>

\* main, command clean: manager.clean(...)
Clean ==
    /\ docker.pc = "ready"
    /\ \E remove_containers \in BOOLEAN, remove_images \in BOOLEAN,
          remove_volumes \in BOOLEAN, remove_build_cache \in BOOLEAN,
          outcomes \in Outcomes :
        LET r == clean(remove_containers, remove_images, remove_volumes,
                       remove_build_cache, outcomes)
        IN  docker' = [docker EXCEPT
                        !.pc = "done",
                        !.call = [op |-> "clean",
                                  remove_containers |-> remove_containers,
                                  remove_images |-> remove_images,
                                  remove_volumes |-> remove_volumes,
                                  remove_build_cache |-> remove_build_cache],
                        !.executed = r.executed,
                        !.returned = r.returned]
    /\ UNCHANGED <<parser, enumerator, line, pc, success, shape>>

DockerNext == Construct \/ Push \/ Clean

DockerSpec == DockerInit /\ [][DockerNext]_vars

-----------------------------------------------------------------------------
(* push *)

IsDockerTag(cmd) == cmd[1] = "docker tag "
IsDockerPush(cmd) == cmd[1] = "docker push "

Pushed == docker.pc = "done" /\ docker.call.op = "push"

\* neither the argument nor the configuration gives a registry URL
NoRegistryAvailable ==
    /\ docker.call.registry_url \in {None, ""}
    /\ docker.config["registry_url"] \in {None, ""}

\* C29: in a call of push, a docker push command is executed only after a
\* docker tag command of that call that succeeded, so never after a docker
\* tag that failed; and when neither the argument nor the configuration gives
\* a registry URL the call executes no command and returns failure.
C29_TagBeforePush ==
    Pushed =>
        /\ \A i \in DOMAIN docker.executed :
            IsDockerPush(docker.executed[i].cmd) =>
                /\ \E j \in 1..(i - 1) :
                    /\ IsDockerTag(docker.executed[j].cmd)
                    /\ docker.executed[j].success
                /\ \A j \in DOMAIN docker.executed :
                    IsDockerTag(docker.executed[j].cmd) =>
                        j < i /\ docker.executed[j].success
        /\ NoRegistryAvailable =>
            /\ docker.executed = <<>>
            /\ docker.returned[1] = FALSE

\* a push to the configured registry whose docker tag succeeded and whose
\* docker push was then executed
C29_Witness ==
    /\ Pushed
    /\ docker.call.registry_url = None
    /\ Len(docker.executed) = 2
    /\ IsDockerTag(docker.executed[1].cmd)
    /\ docker.executed[1].success
    /\ IsDockerPush(docker.executed[2].cmd)

-----------------------------------------------------------------------------
(* clean *)

Cleaned == docker.pc = "done" /\ docker.call.op = "clean"

\* the place of a prune command in the order containers, images, volumes,
\* build cache
PruneRank(cmd) ==
    CASE cmd = <<"docker container prune -f">> -> 1
      [] cmd = <<"docker image prune -af">>    -> 2
      [] cmd = <<"docker volume prune -f">>    -> 3
      [] cmd = <<"docker builder prune -af">>  -> 4
      [] OTHER                                 -> 0

SelectedRanks ==
    {r \in 1..4 :
        \/ r = 1 /\ docker.call.remove_containers
        \/ r = 2 /\ docker.call.remove_images
        \/ r = 3 /\ docker.call.remove_volumes
        \/ r = 4 /\ docker.call.remove_build_cache}

\* C30: a call of clean executes exactly the selected prune commands, each
\* once, in the order containers, images, volumes, build cache, whether or not
\* an earlier one failed; it returns success exactly when every command it
\* executed succeeded; with nothing selected it executes nothing and returns
\* success.
C30_CleanRunsAllSelected ==
    Cleaned =>
        /\ {PruneRank(docker.executed[i].cmd) : i \in DOMAIN docker.executed}
                = SelectedRanks
        /\ \A i, j \in DOMAIN docker.executed :
            i < j => PruneRank(docker.executed[i].cmd)
                        < PruneRank(docker.executed[j].cmd)
        /\ docker.returned[1] =
                (\A i \in DOMAIN docker.executed : docker.executed[i].success)
        /\ SelectedRanks = {} =>
            /\ docker.executed = <<>>
            /\ docker.returned[1] = TRUE

\* a clean of everything whose first command failed: the other three were
\* executed all the same, and the call returned failure
C30_Witness ==
    /\ Cleaned
    /\ SelectedRanks = 1..4
    /\ Len(docker.executed) = 4
    /\ ~docker.executed[1].success
    /\ \A i \in 2..4 : docker.executed[i].success
    /\ docker.returned[1] = FALSE

-----------------------------------------------------------------------------
(* DockerManager: build                                                     *)
(*                                                                          *)
(* What build finds outside the program comes with the call: on_disk says   *)
(* whether the path of the Dockerfile names something that exists, listed   *)
(* whether the output of docker buildx ls is non-empty and names the        *)
(* builder.  A call that raised has returned nothing.                       *)

Raised == <<>>

\* Path(dockerfile_path).exists(): Path("") is the current directory
exists(dockerfile_path, on_disk) ==
    IF dockerfile_path = "" THEN TRUE ELSE on_disk

\* check_dockerfile_exists, for a path that is a string.  The find it runs
\* goes to subprocess.run directly and its return code is not looked at.
check_dockerfile_exists(dockerfile_path, on_disk) ==
    IF ~exists(dockerfile_path, on_disk)
    THEN [executed |-> <<[cmd |-> <<"find . -name Dockerfile* -type f">>,
                          success |-> TRUE]>>,
          result |-> FALSE]
    ELSE [executed |-> <<>>, result |-> TRUE]

\* setup_buildx_builder: docker buildx ls, then use or create
setup_buildx_builder(builder_name, listed, outcomes) ==
    LET cmd_ls == <<"docker buildx ls">>
        cmd_use == <<"docker buildx use ", builder_name>>
        cmd_create == <<"docker buildx create --name ", builder_name,
                        " --use --bootstrap">>
        cmd == IF outcomes[1] /\ listed THEN cmd_use ELSE cmd_create
    IN  [executed |-> <<Ran(cmd_ls, outcomes[1]), Ran(cmd, outcomes[2])>>,
         result |-> run_command(cmd, outcomes[2])[1]]

\* " ".join(cmd_parts)
RECURSIVE join(_)
join(cmd_parts) ==
    IF cmd_parts = <<>> THEN <<>>
    ELSE IF Len(cmd_parts) = 1 THEN cmd_parts[1]
    ELSE cmd_parts[1] \o <<" ">> \o join(Tail(cmd_parts))

\* lines 255-303 of build: the command line, from the resolved arguments
build_command(config, tag, dockerfile, context, no_cache, pull, platform, push_, load, cache_to, cache_from) ==
    LET image == <<config["image_name"], ":", tag>>
        full_image_name ==
            IF push_ /\ Truthy(config["registry_url"])
            THEN <<config["registry_url"], "/">> \o image
            ELSE image
        cmd_parts ==
            << <<"docker buildx build">> >>
            \o << <<"-t ">> \o full_image_name >>
            \o (IF Truthy(dockerfile) THEN << <<"-f ", dockerfile>> >> ELSE <<>>)
            \o (IF Truthy(platform) THEN << <<"--platform ", platform>> >> ELSE <<>>)
            \o (IF Truthy(cache_to) THEN << <<"--cache-to ", cache_to>> >> ELSE <<>>)
            \o (IF Truthy(cache_from) THEN << <<"--cache-from ", cache_from>> >> ELSE <<>>)
            \o (IF no_cache THEN << <<"--no-cache">> >> ELSE <<>>)
            \o (IF pull THEN << <<"--pull">> >> ELSE <<>>)
            \o (IF push_ THEN << <<"--push">> >>
                ELSE IF load THEN << <<"--load">> >>
                ELSE << <<"--load">> >>)
            \o << <<"--progress=plain">> >>
            \o << <<context>> >>
    IN  join(cmd_parts)

\* an argument that is None is taken from the configuration (lines 229-245)
OrConfig(value, config, key) == IF value = None THEN config[key] ELSE value

\* faulty variant: the Dockerfile is not looked for
build_without_dockerfile_check(config, tag, dockerfile, context, no_cache, pull, platform, push_, load, builder, cache_to, cache_from, on_disk, listed, outcomes) ==
    LET tag_ == OrConfig(tag, config, "latest_tag")
        dockerfile_ == OrConfig(dockerfile, config, "dockerfile")
        platform_ == OrConfig(platform, config, "platform")
        builder_ == OrConfig(builder, config, "builder")
        cache_to_ == OrConfig(cache_to, config, "cache_to")
        cache_from_ == OrConfig(cache_from, config, "cache_from")
        setup == setup_buildx_builder(builder_, listed, outcomes)
        cmd == build_command(config, tag_, dockerfile_, context, no_cache, pull,
                             platform_, push_, load, cache_to_, cache_from_)
    IN  [executed |-> setup.executed \o <<Ran(cmd, outcomes[3])>>,
         returned |-> run_command(cmd, outcomes[3])]

\* build.  Path(None) raises TypeError before anything is run; the result of
\* setup_buildx_builder only decides whether a warning is logged.
build(config, tag, dockerfile, context, no_cache, pull, platform, push_, load, builder, cache_to, cache_from, on_disk, listed, outcomes) ==
    LET tag_ == OrConfig(tag, config, "latest_tag")
        dockerfile_ == OrConfig(dockerfile, config, "dockerfile")
        platform_ == OrConfig(platform, config, "platform")
        builder_ == OrConfig(builder, config, "builder")
        cache_to_ == OrConfig(cache_to, config, "cache_to")
        cache_from_ == OrConfig(cache_from, config, "cache_from")
        check == check_dockerfile_exists(dockerfile_, on_disk)
        setup == setup_buildx_builder(builder_, listed, outcomes)
        cmd == build_command(config, tag_, dockerfile_, context, no_cache, pull,
                             platform_, push_, load, cache_to_, cache_from_)
    IN  IF dockerfile_ = None
        THEN [executed |-> <<>>, returned |-> Raised]
        ELSE IF ~check.result
        THEN [executed |-> check.executed, returned |-> <<FALSE, None>>]
        ELSE [executed |-> check.executed \o setup.executed
                            \o <<Ran(cmd, outcomes[3])>>,
              returned |-> run_command(cmd, outcomes[3])]

\* what main can be started with for a build
Dockerfiles == {None, "", "docker/Dockerfile"}

\* the keys whose value decides what build does
BuildKeys == {"dockerfile", "registry_url"}

BuildInit ==
    /\ ParserIdle
    /\ \E environ \in Environs({env_key(key) : key \in BuildKeys}, MaxEnvVars) :
       \E config_file \in ConfigFiles({upper(key) : key \in BuildKeys},
                                      MaxFileAttrs) :
            docker = Started(environ, config_file)

\* main, command build: manager.build(...), with the options that are not
\* given on the command line at their argparse defaults
Build ==
    /\ docker.pc = "ready"
    /\ \E tag \in Tags, dockerfile \in Dockerfiles,
          no_cache \in BOOLEAN, pull \in BOOLEAN,
          push_ \in BOOLEAN, load \in BOOLEAN,
          on_disk \in BOOLEAN, listed \in BOOLEAN, outcomes \in Outcomes :
        LET r == build(docker.config, tag, dockerfile, ".", no_cache, pull,
                       None, push_, load, None, None, None,
                       on_disk, listed, outcomes)
        IN  docker' = [docker EXCEPT
                        !.pc = "done",
                        !.call = [op |-> "build", tag |-> tag,
                                  dockerfile |-> dockerfile,
                                  no_cache |-> no_cache, pull |-> pull,
                                  push |-> push_, load |-> load,
                                  on_disk |-> on_disk, listed |-> listed],
                        !.executed = r.executed,
                        !.returned = r.returned]
    /\ UNCHANGED <<parser, enumerator, line, pc, success, shape>>

BuildNext == Construct \/ Build

BuildSpec == BuildInit /\ [][BuildNext]_vars

-----------------------------------------------------------------------------
(* build *)

Built == docker.pc = "done" /\ docker.call.op = "build"

\* the path build looks for: the argument, or the configured one
DockerfilePath ==
    IF docker.call.dockerfile = None
    THEN docker.config["dockerfile"]
    ELSE docker.call.dockerfile

\* the empty path is the current directory, which is there
DockerfileExists ==
    /\ DockerfilePath # None
    /\ DockerfilePath = "" \/ docker.call.on_disk

IsBuilderSetup(cmd) ==
    cmd[1] \in {"docker buildx ls", "docker buildx use ",
                "docker buildx create --name "}
IsBuild(cmd) == cmd[1] = "docker buildx build"
IsDocker(cmd) == IsBuilderSetup(cmd) \/ IsBuild(cmd)

OutputFlags(cmd) == {i \in DOMAIN cmd : cmd[i] \in {"--push", "--load"}}

\* C31: a call of build whose Dockerfile does not exist executes no docker
\* command, neither for the builder nor for the build, and returns failure
\* (with no path at all, None, it raises instead of returning).  A call whose
\* Dockerfile exists sets up the builder and then executes the build command
\* whether or not the setup succeeded, and returns what the build command
\* gave; that command carries exactly one of --push and --load, and it is
\* --push whenever push was requested, load or not.
C31_BuildGuarded ==
    Built =>
        /\ ~DockerfileExists =>
            \A i \in DOMAIN docker.executed : ~IsDocker(docker.executed[i].cmd)
        /\ (DockerfilePath # None /\ ~DockerfileExists) =>
            docker.returned = <<FALSE, None>>
        /\ DockerfileExists =>
            LET n == Len(docker.executed)
            IN  /\ n >= 2
                /\ IsBuild(docker.executed[n].cmd)
                /\ \A i \in 1..(n - 1) : IsBuilderSetup(docker.executed[i].cmd)
                /\ docker.returned = <<docker.executed[n].success, None>>
                /\ Cardinality(OutputFlags(docker.executed[n].cmd)) = 1
                /\ docker.call.push =>
                    \A i \in OutputFlags(docker.executed[n].cmd) :
                        docker.executed[n].cmd[i] = "--push"

\* a build with both push and load requested whose builder setup failed: the
\* build command was executed all the same, with --push
C31_Witness ==
    /\ Built
    /\ DockerfileExists
    /\ docker.call.push
    /\ docker.call.load
    /\ \E i \in DOMAIN docker.executed :
        /\ IsBuilderSetup(docker.executed[i].cmd)
        /\ docker.executed[i].cmd[1] # "docker buildx ls"
        /\ ~docker.executed[i].success
    /\ LET n == Len(docker.executed)
       IN  /\ IsBuild(docker.executed[n].cmd)
           /\ \E i \in DOMAIN docker.executed[n].cmd :
                docker.executed[n].cmd[i] = "--push"

\* a build of a Dockerfile that is not there: nothing but the find was run
C31_WitnessMissing ==
    /\ Built
    /\ DockerfilePath # None
    /\ ~DockerfileExists
    /\ Len(docker.executed) = 1
    /\ docker.returned = <<FALSE, None>>

====
